---- MODULE Spec2Model ----
(***************************************************************************)
(* Second-price sealed-bid ad auction (src/auction.py) and its adaptive    *)
(* bidding agent (src/bidder.py).                                          *)
(*                                                                         *)
(* Amounts of money and probabilities are fixed-point integers in units of *)
(* 1/10000 (Unit = 1.0), so that round(x, 3) is a real conversion: it      *)
(* yields a multiple of 10.                                                *)
(*                                                                         *)
(* Spec       : an Auction driven by execute_round().  Auction only calls  *)
(*              bid(user_id) and notify(won, price, clicked) on its        *)
(*              bidders (src/test.py:57-64 passes mocks), so the bidders   *)
(*              of Spec return any amount of RawBids.                      *)
(* BidderSpec : one Bidder driven by arbitrary bid() and notify() calls.   *)
(* WindowSpec : one Bidder driven through long runs of notifications with  *)
(*              pairwise distinct prices, past the capacity of a window.   *)
(***************************************************************************)
EXTENDS Integers, Sequences, FiniteSets

VARIABLES
    \* ---- Auction (src/auction.py) ----
    users,            \* Auction.users: sequence of User.click_probability
    bidders,          \* Auction.bidders: sequence of bidder identities
    balances,         \* Auction.balances
    history,          \* Auction.history
    round_number,     \* Auction.round_number
    \* ---- the locals of the latest execute_round() call ----
    user_index,       \* target chosen by random.randrange (1-based), None before any round
    active_bidders,   \* sequence of bidders with balance >= -1000
    bids,             \* bids[b]: clamped, rounded bid of each active bidder
    winner,           \* chosen winner, None when the round returned early
    second_price,     \* clearing price
    clicked,          \* outcome of selected_user.show_ad()
    draw,             \* value random.random() returned inside show_ad()
    calls,            \* calls the round made on its collaborators, in order
    prev_balances,    \* balances when the latest round started
    prev_history,     \* history when the latest round started
    \* ---- Bidder (src/bidder.py) ----
    num_rounds,       \* Bidder.num_rounds
    clicks,           \* Bidder.user_data['clicks']
    impressions,      \* Bidder.user_data['impressions']
    click_probs,      \* Bidder.user_data['click_probs']
    winning_prices,   \* Bidder.user_data['winning_prices']
    current_round,    \* Bidder.current_round
    last_user_id,     \* Bidder.last_user_id (None before the first bid)
    last_bid,         \* Bidder.last_bid (None before the first bid)
    returned,         \* value returned by the latest call on the Bidder
    last_call,        \* the latest call on the Bidder and its arguments
    notify_count,     \* number of notify() calls made on the Bidder
    price_log         \* per target, the (price, won) of every notification
                      \* the Bidder attributed to it, in arrival order

auctionVars == <<users, bidders, balances, history, round_number, user_index,
                 active_bidders, bids, winner, second_price, clicked, draw,
                 calls, prev_balances, prev_history>>
bidderVars == <<num_rounds, clicks, impressions, click_probs, winning_prices,
                current_round, last_user_id, last_bid, returned, last_call,
                notify_count, price_log>>
vars == <<auctionVars, bidderVars>>

-----------------------------------------------------------------------------
(* Bounds of the model *)

\* rounds execute_round() is run for
MaxRounds == 2
\* bid() calls made on the Bidder of BidderSpec
MaxBids == 2
\* notify() calls made on the Bidder of BidderSpec
MaxNotifies == 3
\* num_users the Bidder of BidderSpec is constructed with
NumUsers == 2
\* 1.0 in fixed point
Unit == 10000

\* Python's None where a bidder identity, a user id or an amount is expected
None == -1
\* `returned` when the call raised instead of returning
Raised == -2
\* the three values the `clicked` argument of notify takes
ClickedTrue == "True"
ClickedFalse == "False"
ClickedNone == "None"

Range(s) == {s[i] : i \in 1..Len(s)}

Max2(a, b) == IF a >= b THEN a ELSE b
Min2(a, b) == IF a <= b THEN a ELSE b
SetMax(S) == CHOOSE x \in S : \A y \in S : y <= x

\* round(x, 3): nearest multiple of 0.001, ties to even
Round3(x) ==
    LET r == x % 10
        lo == x - r
    IN  IF r < 5 THEN lo
        ELSE IF r > 5 THEN lo + 10
        ELSE IF (lo \div 10) % 2 = 0 THEN lo ELSE lo + 10

-----------------------------------------------------------------------------
(* Inputs of the auction *)

\* click probabilities of the users an Auction is constructed with
\* (User.__init__ draws each with random.random(), which lies in [0, 1))
UserLists == {<<0, 5000>>}
\* values random.random() returns inside show_ad()
Draws == {0, 5000}
\* amounts a bidder's bid() returns: -0.1, 0.3004, 1000.0, 1001.0
RawBids == {-1000, 3004, 1000 * Unit, 1001 * Unit}
\* the bidder lists an Auction is constructed with
BidderLists == {<<>>, <<1>>, <<1, 2>>, <<1, 2, 3>>}

-----------------------------------------------------------------------------
(* Auction.execute_round, src/auction.py:66-111 *)

\* the insolvency threshold -1000
Threshold == -(1000 * Unit)

\* mutant: the threshold itself already disqualifies
ActiveBidders_strict(bs, bal) == SelectSeq(bs, LAMBDA b : bal[b] > -(1000 * Unit))

ActiveBidders(bs, bal) == SelectSeq(bs, LAMBDA b : bal[b] >= Threshold)

ClampBid(bid_amount) == Max2(0, Round3(bid_amount))

NoBids(bs) == DOMAIN bs = {}

\* mutant: the winner is drawn among all the bidders that bid
MaxBidders_all(bs) == DOMAIN bs

MaxBidders(bs) ==
    LET max_bid == SetMax({bs[b] : b \in DOMAIN bs})
    IN  {b \in DOMAIN bs : bs[b] = max_bid}

\* mutant: the winner pays its own bid
SecondPrice_first(bs, max_bidders, w) == SetMax({bs[b] : b \in DOMAIN bs})

\* mutant: the price is the highest bid below the maximum, also in a tie
SecondPrice_distinct(bs, max_bidders, w) ==
    LET second_bids == {bs[b] : b \in DOMAIN bs \ max_bidders}
    IN  IF second_bids # {} THEN SetMax(second_bids) ELSE 0

SecondPrice(bs, max_bidders, w) ==
    LET max_bid == SetMax({bs[b] : b \in DOMAIN bs})
        second_bids == {bs[b] : b \in DOMAIN bs \ {w}}
    IN  IF Cardinality(max_bidders) > 1 THEN max_bid
        ELSE IF second_bids # {} THEN SetMax(second_bids) ELSE 0

\* mutant: a draw equal to the probability counts as a click
ShowAd_inclusive(click_probability, r) == r <= click_probability

\* User.show_ad, src/auction.py:30-39
ShowAd(click_probability, r) == r < click_probability

ClickedArg(c) == IF c THEN ClickedTrue ELSE ClickedFalse

Call(op, b, u, won, price, c) ==
    [op |-> op, bidder |-> b, user |-> u, won |-> won, price |-> price,
     clicked |-> c]

RandrangeCall(ui) == Call("randrange", None, ui, FALSE, None, ClickedNone)
BidCall(b, ui) == Call("bid", b, ui, FALSE, None, ClickedNone)
ChoiceCall(w) == Call("choice", w, None, FALSE, None, ClickedNone)
ShowAdCall(ui, c) == Call("show_ad", None, ui, FALSE, None, ClickedArg(c))
\* self.balances[winner] += reward - second_price
UpdateCall(w) == Call("update", w, None, FALSE, None, ClickedNone)

\* mutant: every bidder is told the click outcome
NotifyCall_leak(b, w, price, c) ==
    Call("notify", b, None, b = w, price, ClickedArg(c))

NotifyCall(b, w, price, c) ==
    IF b = w THEN Call("notify", b, None, TRUE, price, ClickedArg(c))
    ELSE Call("notify", b, None, FALSE, price, ClickedNone)

\* mutant: the click is sampled before the round returns for want of bids
EarlyReturnCalls_sampled(ui) == <<RandrangeCall(ui), ShowAdCall(ui, FALSE)>>

\* calls of a round that returns at `if not bids: return`
EarlyReturnCalls(ui) == <<RandrangeCall(ui)>>

\* mutant: the click is sampled anew for every bidder that is notified
RoundCalls_resample(ui, act, w, price, c) ==
    <<RandrangeCall(ui)>>
    \o [i \in 1..Len(act) |-> BidCall(act[i], ui)]
    \o <<ChoiceCall(w)>>
    \o [i \in 1..(2 * Len(act)) |->
           IF i % 2 = 1 THEN ShowAdCall(ui, c)
           ELSE NotifyCall(act[i \div 2], w, price, c)]
    \o <<UpdateCall(w)>>

\* mutant: the click is sampled before the tie-break draw
RoundCalls_click_first(ui, act, w, price, c) ==
    <<RandrangeCall(ui)>>
    \o [i \in 1..Len(act) |-> BidCall(act[i], ui)]
    \o <<ShowAdCall(ui, c), ChoiceCall(w)>>
    \o [i \in 1..Len(act) |-> NotifyCall(act[i], w, price, c)]
    \o <<UpdateCall(w)>>

\* mutant: only the winner is notified
RoundCalls_winner_only(ui, act, w, price, c) ==
    <<RandrangeCall(ui)>>
    \o [i \in 1..Len(act) |-> BidCall(act[i], ui)]
    \o <<ChoiceCall(w), ShowAdCall(ui, c), NotifyCall(w, w, price, c),
         UpdateCall(w)>>

\* steps of a round that runs to its end, in the order of the code: the calls
\* on random, on the bidders and on the user, then the ledger update
RoundCalls(ui, act, w, price, c) ==
    <<RandrangeCall(ui)>>
    \o [i \in 1..Len(act) |-> BidCall(act[i], ui)]
    \o <<ChoiceCall(w), ShowAdCall(ui, c)>>
    \o [i \in 1..Len(act) |-> NotifyCall(act[i], w, price, c)]
    \o <<UpdateCall(w)>>

Reward(c) == IF c THEN Unit ELSE 0

\* mutant: the winner is charged and never credited
UpdateBalances_noreward(bal, w, reward, price) == [bal EXCEPT ![w] = @ - price]

UpdateBalances(bal, w, reward, price) ==
    [bal EXCEPT ![w] = @ + reward - price]

\* for bidder in self.bidders: self.history[winner].append(self.balances[winner])
AppendHistory(hist, bs, w, bal) ==
    [hist EXCEPT ![w] = @ \o [i \in 1..Len(bs) |-> bal[w]]]

BidderUntouched == UNCHANGED bidderVars

ExecuteRound ==
    /\ round_number < MaxRounds
    /\ round_number' = round_number + 1
    /\ prev_balances' = balances
    /\ prev_history' = history
    /\ \E ui \in 1..Len(users), r \in Draws :
         LET act == ActiveBidders(bidders, balances) IN
         \E raw \in [Range(act) -> RawBids] :
           LET bs == [b \in Range(act) |-> ClampBid(raw[b])] IN
           /\ user_index' = ui
           /\ active_bidders' = act
           /\ bids' = bs
           /\ IF NoBids(bs)
              THEN /\ calls' = EarlyReturnCalls(ui)
                   /\ winner' = None
                   /\ second_price' = None
                   /\ clicked' = FALSE
                   /\ draw' = None
                   /\ UNCHANGED <<balances, history>>
              ELSE \E w \in MaxBidders(bs) :
                     LET price == SecondPrice(bs, MaxBidders(bs), w)
                         c == ShowAd(users[ui], r)
                         bal == UpdateBalances(balances, w, Reward(c), price)
                     IN  /\ winner' = w
                         /\ second_price' = price
                         /\ clicked' = c
                         /\ draw' = r
                         /\ calls' = RoundCalls(ui, act, w, price, c)
                         /\ balances' = bal
                         /\ history' = AppendHistory(history, bidders, w, bal)
    /\ UNCHANGED <<users, bidders>>
    /\ BidderUntouched

-----------------------------------------------------------------------------
(* Bidder, src/bidder.py *)

\* num_rounds a Bidder is constructed with
NumRoundsChoices == {2, 11}
\* values np.random.beta returns
BetaSamples == {500, 5000, 9500}
\* winning_price arguments of notify: 0, 0.3004
NotifyPrices == {0, 3004}
\* clicked arguments of notify
ClickedArgs == {ClickedTrue, ClickedFalse, ClickedNone}

\* auction_config, src/bidder.py:52-56
exploration_factor == 2
min_bid == 100
max_bid == 9500
\* initial click_probs entry 0.45
InitialClickProb == 4500
\* capacity of a winning_prices window
WindowCapacity == 10

\* np.log(n) for the n a model run meets
Ln(n) ==
    CASE n = 1 -> 0
      [] n = 2 -> 6931
      [] n = 3 -> 10986
      [] n = 4 -> 13863
      [] n = 5 -> 16094
      [] n = 6 -> 17918
      [] n = 7 -> 19459
      [] OTHER -> 20794

\* largest r in lo..hi with r * r <= x
RECURSIVE SqrtSearch(_, _, _)
SqrtSearch(x, lo, hi) ==
    IF lo >= hi THEN lo
    ELSE LET mid == (lo + hi + 1) \div 2
         IN  IF mid * mid <= x THEN SqrtSearch(x, mid, hi)
             ELSE SqrtSearch(x, lo, mid - 1)

\* np.sqrt of the fixed-point x
Sqrt(x) == SqrtSearch(x * Unit, 0, 4 * Unit)

RECURSIVE SeqSum(_)
SeqSum(s) == IF s = <<>> THEN 0 ELSE Head(s) + SeqSum(Tail(s))

\* np.mean
Mean(s) == SeqSum(s) \div Len(s)

\* Python truthiness of the `clicked` argument
Truthy(c) == c = ClickedTrue

ProgressBelow02(cr, nr) == 5 * cr < nr
ProgressAbove08(cr, nr) == 5 * cr > 4 * nr

ExplorationDecay(cr, nr) == (Unit * nr) \div (nr + cr)

EstimatedValue(cl, imp) ==
    IF imp = 0 THEN Unit \div 2 ELSE (cl * Unit) \div imp

ExplorationBonus(cl, imp, cr, nr) ==
    IF imp = 0 THEN exploration_factor * ExplorationDecay(cr, nr)
    ELSE exploration_factor * Sqrt(Ln(cr + 1) \div (imp + 1))

ValueEstimate(sampled_value, exploration_bonus) ==
    sampled_value + (exploration_bonus * (Unit - sampled_value)) \div Unit

PriceAdjusted(value_estimate, prices) ==
    IF prices # <<>>
    THEN LET avg_price == Mean(prices)
         IN  IF value_estimate > avg_price
             THEN Min2(value_estimate, (avg_price * 11) \div 10)
             ELSE (value_estimate * 9) \div 10
    ELSE value_estimate

ProgressAdjusted(bid_amount, value_estimate, estimated_value, cr, nr) ==
    IF ProgressBelow02(cr, nr) THEN Max2(bid_amount, min_bid * 3)
    ELSE IF ProgressAbove08(cr, nr)
         THEN IF estimated_value > (7 * Unit) \div 10
              THEN Max2(bid_amount, (value_estimate * 95) \div 100)
              ELSE Min2(bid_amount, (value_estimate * 8) \div 10)
         ELSE bid_amount

\* mutant: the bid is not limited
LimitBid_none(bid_amount) == bid_amount

LimitBid(bid_amount) == Max2(min_bid, Min2(max_bid, bid_amount))

\* the amount bid() computes in round cr, before it is stored and returned
BidAmount(cl, imp, prices, cr, nr, sampled_value) ==
    LET value_estimate ==
            ValueEstimate(sampled_value, ExplorationBonus(cl, imp, cr, nr))
        bid_amount ==
            ProgressAdjusted(PriceAdjusted(value_estimate, prices),
                             value_estimate, EstimatedValue(cl, imp), cr, nr)
    IN  Round3(LimitBid(bid_amount))

Bid(user_id, sampled_value) ==
    LET cr == current_round + 1
        amount == BidAmount(clicks[user_id], impressions[user_id],
                            winning_prices[user_id], cr, num_rounds,
                            sampled_value)
    IN  /\ current_round' = cr
        /\ last_user_id' = user_id
        /\ last_bid' = amount
        /\ returned' = amount
        /\ last_call' = [op |-> "bid", user |-> user_id, won |-> FALSE,
                         price |-> None, clicked |-> ClickedNone]
        /\ UNCHANGED <<num_rounds, clicks, impressions, click_probs,
                       winning_prices, notify_count, price_log>>

\* mutant: over capacity the newest price is dropped, not the oldest
RecordPrice_drop_newest(prices, winning_price) ==
    IF Len(prices) + 1 > 10 THEN prices ELSE Append(prices, winning_price)

\* mutant: the price is rounded to 3 places before it is recorded
RecordPrice_rounded(prices, winning_price) ==
    Append(prices, Round3(winning_price))

\* winning_prices[user_id].append(winning_price), then pop(0) over capacity
RecordPrice(prices, winning_price) ==
    LET appended == Append(prices, winning_price)
    IN  IF Len(appended) > WindowCapacity THEN Tail(appended) ELSE appended

\* mutant: an impression is counted whether or not the auction was won
NotifyImpressions_always(imp, auction_winner) == imp + 1

NotifyImpressions(imp, auction_winner) ==
    IF auction_winner THEN imp + 1 ELSE imp

\* mutant: a click is counted whether or not the auction was won
NotifyClicks_always(cl, auction_winner, c) == IF Truthy(c) THEN cl + 1 ELSE cl

NotifyClicks(cl, auction_winner, c) ==
    IF auction_winner /\ Truthy(c) THEN cl + 1 ELSE cl

\* mutant: the estimate is smoothed with one more impression
NotifyClickProb_smoothed(prob, cl, imp, auction_winner) ==
    IF auction_winner /\ imp > 0 THEN (cl * Unit) \div (imp + 1) ELSE prob

NotifyClickProb(prob, cl, imp, auction_winner) ==
    IF auction_winner /\ imp > 0 THEN (cl * Unit) \div imp ELSE prob

\* mutant: the guard against a notification without a prior bid is missing
NoPendingTarget_never(luid) == FALSE

\* if self.last_user_id is None
NoPendingTarget(luid) == luid = None

Notify(auction_winner, winning_price, c) ==
    /\ last_call' = [op |-> "notify", user |-> last_user_id,
                     won |-> auction_winner, price |-> winning_price,
                     clicked |-> c]
    /\ notify_count' = notify_count + 1
    /\ IF NoPendingTarget(last_user_id)
       THEN /\ returned' = None
            /\ UNCHANGED <<clicks, impressions, click_probs, winning_prices,
                           price_log>>
       ELSE IF last_user_id \notin DOMAIN winning_prices
       THEN \* winning_prices[user_id] raises TypeError / IndexError
            /\ returned' = Raised
            /\ UNCHANGED <<clicks, impressions, click_probs, winning_prices,
                           price_log>>
       ELSE LET user_id == last_user_id
                imp == NotifyImpressions(impressions[user_id], auction_winner)
                cl == NotifyClicks(clicks[user_id], auction_winner, c)
            IN  /\ returned' = None
                /\ winning_prices' =
                       [winning_prices EXCEPT
                           ![user_id] = RecordPrice(@, winning_price)]
                /\ impressions' = [impressions EXCEPT ![user_id] = imp]
                /\ clicks' = [clicks EXCEPT ![user_id] = cl]
                /\ click_probs' =
                       [click_probs EXCEPT
                           ![user_id] = NotifyClickProb(@, cl, imp, auction_winner)]
                /\ price_log' =
                       [price_log EXCEPT
                           ![user_id] = Append(@, [price |-> winning_price,
                                                   won |-> auction_winner])]
    /\ UNCHANGED <<num_rounds, current_round, last_user_id, last_bid>>

AuctionUntouched == UNCHANGED auctionVars

BidStep ==
    /\ current_round < MaxBids
    /\ \E user_id \in 1..NumUsers, sampled_value \in BetaSamples :
         Bid(user_id, sampled_value)
    /\ AuctionUntouched

NotifyStep ==
    /\ notify_count < MaxNotifies
    /\ \E auction_winner \in BOOLEAN, winning_price \in NotifyPrices,
          c \in ClickedArgs :
         Notify(auction_winner, winning_price, c)
    /\ AuctionUntouched

\* ---- WindowSpec: long runs of notifications on one Bidder ----
\* bid() calls made on the Bidder of WindowSpec
WindowMaxBids == 2
\* notify() calls made on the Bidder of WindowSpec
WindowMaxNotifies == 11
\* winning_price of the k-th notification: k * 0.001, so that every
\* notification is told from every other by its price
WindowPrice(k) == 10 * k
\* the k-th notification is won when k is odd, and clicked every other win
WindowWon(k) == k % 2 = 1
WindowClicked(k) ==
    IF k % 4 = 1 THEN ClickedTrue
    ELSE IF k % 4 = 3 THEN ClickedFalse ELSE ClickedNone

WindowBidStep ==
    /\ current_round < WindowMaxBids
    /\ \E user_id \in 1..NumUsers : Bid(user_id, Unit \div 2)
    /\ AuctionUntouched

WindowNotifyStep ==
    /\ notify_count < WindowMaxNotifies
    /\ LET k == notify_count + 1
       IN  Notify(WindowWon(k), WindowPrice(k), WindowClicked(k))
    /\ AuctionUntouched

\* last_call before any call
NoCall ==
    [op |-> "none", user |-> None, won |-> FALSE, price |-> None,
     clicked |-> ClickedNone]

\* Bidder.__init__, src/bidder.py:34-60
BidderConstructed(nu, nr) ==
    /\ num_rounds = nr
    /\ clicks = [u \in 1..nu |-> 0]
    /\ impressions = [u \in 1..nu |-> 0]
    /\ click_probs = [u \in 1..nu |-> InitialClickProb]
    /\ winning_prices = [u \in 1..nu |-> <<>>]
    /\ current_round = 0
    /\ last_user_id = None
    /\ last_bid = None
    /\ returned = None
    /\ last_call = NoCall
    /\ notify_count = 0
    /\ price_log = [u \in 1..nu |-> <<>>]

\* the Bidder variables while no Bidder is constructed
NoBidderObject ==
    /\ num_rounds = 0
    /\ clicks = <<>>
    /\ impressions = <<>>
    /\ click_probs = <<>>
    /\ winning_prices = <<>>
    /\ current_round = 0
    /\ last_user_id = None
    /\ last_bid = None
    /\ returned = None
    /\ last_call = NoCall
    /\ notify_count = 0
    /\ price_log = <<>>

\* the Auction variables while no Auction is constructed
NoAuctionObject ==
    /\ users = <<>>
    /\ bidders = <<>>
    /\ balances = <<>>
    /\ history = <<>>
    /\ round_number = 0
    /\ user_index = None
    /\ active_bidders = <<>>
    /\ bids = <<>>
    /\ winner = None
    /\ second_price = None
    /\ clicked = FALSE
    /\ draw = None
    /\ calls = <<>>
    /\ prev_balances = <<>>
    /\ prev_history = <<>>

BidderInit ==
    /\ \E nr \in NumRoundsChoices : BidderConstructed(NumUsers, nr)
    /\ NoAuctionObject

BidderNext == BidStep \/ NotifyStep

BidderSpec == BidderInit /\ [][BidderNext]_vars

WindowNext == WindowBidStep \/ WindowNotifyStep

WindowSpec == BidderInit /\ [][WindowNext]_vars

-----------------------------------------------------------------------------
(* Auction.__init__, src/auction.py:58-65, and User.__init__, :28-29 *)

Init ==
    /\ users \in UserLists
    /\ bidders \in BidderLists
    /\ balances = [b \in Range(bidders) |-> 0]
    /\ history = [b \in Range(bidders) |-> <<>>]
    /\ round_number = 0
    /\ user_index = None
    /\ active_bidders = <<>>
    /\ bids = <<>>
    /\ winner = None
    /\ second_price = None
    /\ clicked = FALSE
    /\ draw = None
    /\ calls = <<>>
    /\ prev_balances = balances
    /\ prev_history = history
    /\ NoBidderObject

Next == ExecuteRound

Spec == Init /\ [][Next]_vars

-----------------------------------------------------------------------------
(* Properties of Auction.execute_round (Spec) *)

\* a round has been executed and ran to its end
RoundCompleted == round_number > 0 /\ winner # None
\* a round has been executed and returned for want of bids
RoundReturnedEarly == round_number > 0 /\ winner = None

TopBid == SetMax({bids[b] : b \in DOMAIN bids})
Tied == {b \in DOMAIN bids : bids[b] = TopBid}
CallsOn(op, b) ==
    {i \in DOMAIN calls : calls[i].op = op /\ calls[i].bidder = b}
CallsOf(op) == {i \in DOMAIN calls : calls[i].op = op}

\* C1: after any number of execute_round() calls, the history sequence of
\* every agent of the auction is as long as the number of rounds executed.
C1_HistoryLengthIsRounds ==
    \A b \in Range(bidders) : Len(history[b]) = round_number

\* C2: in a round with at least one active agent, the clearing price is never
\* greater than the clamped, rounded bid of the winner.
C2_PriceAtMostWinningBid ==
    RoundCompleted => second_price <= bids[winner]

C2_Witness ==
    /\ RoundCompleted
    /\ Len(active_bidders) >= 2
    /\ 0 < second_price
    /\ second_price < bids[winner]

\* C3: when exactly one active agent holds the maximum bid, it is the winner
\* and the clearing price is the highest bid among the other active agents,
\* or 0 when it is the only active agent.
C3_UniqueMaxPaysSecond ==
    (RoundCompleted /\ Cardinality(Tied) = 1) =>
        /\ winner \in Tied
        /\ LET others == {bids[b] : b \in DOMAIN bids \ {winner}}
           IN  second_price = IF others = {} THEN 0 ELSE SetMax(others)

C3_Witness ==
    /\ RoundCompleted
    /\ Cardinality(Tied) = 1
    /\ Len(active_bidders) = 3
    /\ Cardinality({bids[b] : b \in DOMAIN bids}) = 3
    /\ second_price > 0

\* C4: when two or more active agents tie at the maximum bid, the winner is
\* one of them and the clearing price is that maximum bid.
C4_TiePaysMaximum ==
    (RoundCompleted /\ Cardinality(Tied) >= 2) =>
        /\ winner \in Tied
        /\ second_price = TopBid

C4_Witness ==
    /\ RoundCompleted
    /\ Cardinality(Tied) = 2
    /\ Len(active_bidders) = 3
    /\ TopBid > 0
    /\ winner = SetMax(Tied)

\* C5: an agent whose balance is below -1000 when a round starts is not asked
\* to bid, is not notified, is not the winner and keeps its balance in that
\* round (so it stays below -1000 in every later round); an agent whose
\* balance is exactly -1000 is active and asked to bid.
C5_DisqualifiedForGood ==
    round_number > 0 =>
        \A b \in Range(bidders) :
            /\ prev_balances[b] < -(1000 * Unit) =>
                  /\ b \notin Range(active_bidders)
                  /\ {i \in DOMAIN calls : calls[i].bidder = b} = {}
                  /\ winner # b
                  /\ balances[b] = prev_balances[b]
            /\ prev_balances[b] = -(1000 * Unit) =>
                  /\ b \in Range(active_bidders)
                  /\ Cardinality(CallsOn("bid", b)) = 1

C5_Witness ==
    /\ RoundCompleted
    /\ \E b \in Range(bidders) :
          /\ prev_balances[b] < -(1000 * Unit)
          /\ balances[b] = prev_balances[b]
          /\ b \notin Range(active_bidders)

\* C6: a round with no active agent leaves every balance and every history
\* sequence unchanged, asks for no bid, samples no click and notifies nobody.
C6_NoActiveAgentIsNoOp ==
    (round_number > 0 /\ active_bidders = <<>>) =>
        /\ balances = prev_balances
        /\ history = prev_history
        /\ CallsOf("bid") = {}
        /\ CallsOf("show_ad") = {}
        /\ CallsOf("notify") = {}

C6_Witness ==
    /\ round_number = MaxRounds
    /\ active_bidders = <<>>
    /\ calls # <<>>

\* C7: in a round with at least one active agent every active agent gets
\* exactly one notify call, the winner (True, price, clicked) and every other
\* active agent (False, price, None); an agent that is not active gets none.
C7_NotifyProtocol ==
    RoundCompleted =>
        \A b \in Range(bidders) :
            IF b \in Range(active_bidders)
            THEN /\ Cardinality(CallsOn("notify", b)) = 1
                 /\ \A i \in CallsOn("notify", b) :
                       /\ calls[i].price = second_price
                       /\ calls[i].won = (b = winner)
                       /\ calls[i].clicked =
                              IF b = winner
                              THEN (IF clicked THEN ClickedTrue ELSE ClickedFalse)
                              ELSE ClickedNone
            ELSE CallsOn("notify", b) = {}

C7_Witness ==
    /\ RoundCompleted
    /\ Len(active_bidders) >= 2
    /\ clicked
    /\ \E b \in Range(active_bidders) :
          /\ b # winner
          /\ \E i \in CallsOn("notify", b) : calls[i].clicked = ClickedNone

\* C8: in a round with at least one active agent the winner's balance changes
\* by (1 if the user clicked else 0) minus the clearing price, and no other
\* balance changes.
C8_LedgerUpdate ==
    RoundCompleted =>
        /\ balances[winner] =
               prev_balances[winner] + (IF clicked THEN Unit ELSE 0)
                   - second_price
        /\ \A b \in Range(bidders) \ {winner} : balances[b] = prev_balances[b]

C8_Witness ==
    /\ RoundCompleted
    /\ clicked
    /\ second_price > 0
    /\ Len(bidders) >= 2
    /\ balances[winner] # prev_balances[winner]

\* C12: in a round with at least one active agent the click is sampled
\* exactly once, however many agents are active, and that outcome is the one
\* reported to the winner and the one the winner's reward is computed from.
C12_ClickSampledOnce ==
    RoundCompleted =>
        /\ Cardinality(CallsOf("show_ad")) = 1
        /\ \A i \in CallsOf("show_ad") :
              /\ \A j \in CallsOn("notify", winner) :
                    calls[j].clicked = calls[i].clicked
              /\ balances[winner] - prev_balances[winner] + second_price =
                     IF calls[i].clicked = ClickedTrue THEN Unit ELSE 0

C12_Witness ==
    /\ RoundCompleted
    /\ Len(active_bidders) = 3
    /\ clicked
    /\ Cardinality(CallsOf("notify")) = 3

\* C14: show_ad() returns true exactly when the value drawn from the random
\* source is strictly less than the user's click probability, and no round
\* changes a click probability.
C14_ShowAd ==
    [][/\ users' = users
       /\ (round_number' > 0 /\ winner' # None) =>
              (clicked' <=> draw' < users'[user_index'])]_vars

C14_Witness ==
    /\ RoundCompleted
    /\ draw = users[user_index]
    /\ ~clicked

\* C15: after every round with at least one active agent, the last entry of
\* every agent's history sequence is that agent's current balance, and the
\* entries the history held before the round are still there, unmodified.
C15_HistoryEndsWithBalance ==
    RoundCompleted =>
        \A b \in Range(bidders) :
            /\ Len(history[b]) > 0
            /\ history[b][Len(history[b])] = balances[b]
            /\ Len(prev_history[b]) <= Len(history[b])
            /\ SubSeq(history[b], 1, Len(prev_history[b])) = prev_history[b]

\* the steps a round that runs to its end must take, from its locals
ExpectedOps ==
    <<"randrange">>
    \o [i \in 1..Len(active_bidders) |-> "bid"]
    \o <<"choice", "show_ad">>
    \o [i \in 1..Len(active_bidders) |-> "notify"]
    \o <<"update">>
\* the steps that consult the random source
RandomOps == {"randrange", "bid", "choice", "show_ad"}

\* C19: the steps of a round happen in the order target selection, a bid from
\* each active agent in agent order, the tie-break draw, the click sample, the
\* notifications, the ledger update; the random source is consulted at target
\* selection, inside the bids, at the tie-break and at the click sample only,
\* in that order.
C19_StepOrder ==
    RoundCompleted =>
        /\ [i \in DOMAIN calls |-> calls[i].op] = ExpectedOps
        /\ \A i \in 1..Len(active_bidders) :
              /\ calls[1 + i].bidder = active_bidders[i]
              /\ calls[1 + i].user = user_index
        /\ \A i, j \in 1..Len(active_bidders) :
              i < j =>
                  \E k, l \in DOMAIN bidders :
                      /\ k < l
                      /\ bidders[k] = active_bidders[i]
                      /\ bidders[l] = active_bidders[j]
        /\ \A i, j \in DOMAIN calls :
              (calls[i].op \in RandomOps /\ calls[j].op \notin RandomOps) => i < j
        /\ \A i, j \in DOMAIN calls :
              /\ (calls[i].op = "randrange" /\ calls[j].op = "bid") => i < j
              /\ (calls[i].op = "bid" /\ calls[j].op = "choice") => i < j
              /\ (calls[i].op = "choice" /\ calls[j].op = "show_ad") => i < j

C19_Witness ==
    /\ RoundCompleted
    /\ round_number = 2
    /\ Len(active_bidders) = 2
    /\ Len(bidders) = 3
    /\ Cardinality(Tied) = 2

\* the target a Bidder would attribute step i of the round to: the user of
\* the latest bid call made on b before step i
BidsBefore(b, i) == {k \in CallsOn("bid", b) : k < i}
PendingAt(b, i) == calls[SetMax(BidsBefore(b, i))].user

\* C20: driven by execute_round() alone, every agent's bid and notify calls
\* alternate, bid first: in each round an agent gets either no call at all or
\* one bid followed by one notify, so the notify is attributed to the target
\* of its own round and no agent has two outstanding bids.
C20_BidNotifyAlternate ==
    round_number > 0 =>
        \A b \in Range(bidders) :
            \/ CallsOn("bid", b) = {} /\ CallsOn("notify", b) = {}
            \/ /\ Cardinality(CallsOn("bid", b)) = 1
               /\ Cardinality(CallsOn("notify", b)) = 1
               /\ \A j \in CallsOn("notify", b) :
                     /\ BidsBefore(b, j) # {}
                     /\ PendingAt(b, j) = user_index

C20_Witness ==
    /\ RoundCompleted
    /\ round_number = 2
    /\ Len(active_bidders) = 2
    /\ Len(bidders) = 3
    /\ winner = active_bidders[2]

-----------------------------------------------------------------------------
(* Properties of Bidder (BidderSpec) *)

\* C9: clicks <= impressions for every target, after any sequence of bid and
\* notify calls with any won / clicked arguments.
C9_ClicksAtMostImpressions ==
    \A u \in DOMAIN clicks : clicks[u] <= impressions[u]

C9_Witness ==
    /\ last_call.op = "notify"
    /\ last_call.user # None
    /\ ~last_call.won
    /\ last_call.clicked = ClickedTrue
    /\ clicks[last_call.user] >= 1
    /\ clicks[last_call.user] = impressions[last_call.user]

\* C10: every value bid() returns lies in [min_bid, max_bid] = [0.01, 0.95], is
\* a multiple of 0.001 and is the value stored as last_bid.
C10_BidInRange ==
    last_call.op = "bid" =>
        /\ 100 <= returned
        /\ returned <= 9500
        /\ returned % 10 = 0
        /\ returned = last_bid

C10_Witness ==
    /\ last_call.op = "bid"
    /\ notify_count > 0
    /\ winning_prices[last_call.user] # <<>>
    /\ 100 < returned
    /\ returned < 9500

\* a notify() call has just been made on the Bidder
NotifyCalled == notify_count' = notify_count + 1
\* the fields of the Bidder
bidderFields == <<num_rounds, clicks, impressions, click_probs, winning_prices,
                  current_round, last_user_id, last_bid>>

\* C11: notify on a Bidder that has never bid leaves every field of the
\* Bidder (counters, click-probability estimates, price windows, round
\* counter, last target, last bid) unchanged and raises nothing.
C11_NotifyBeforeBidIsNoOp ==
    [][(current_round = 0 /\ NotifyCalled) =>
          (returned' # Raised /\ UNCHANGED bidderFields)]_vars

C11_Witness ==
    /\ last_call.op = "notify"
    /\ last_call.won
    /\ last_call.clicked = ClickedTrue
    /\ current_round = 0
    /\ notify_count >= 2

\* the arguments of the notify() call just made, and its pending target
NotifyWon == last_call'.won
NotifyPrice == last_call'.price
NotifyClicked == last_call'.clicked
\* the fields of target u
TargetData(u) == <<clicks[u], impressions[u], click_probs[u], winning_prices[u]>>

\* C13: notify(won=True, price, clicked) with pending target t adds 1 to
\* impressions[t], adds 1 to clicks[t] exactly when clicked is True, stores
\* clicks[t] / impressions[t] as the estimate of t, appends price to the window
\* of t (dropping the oldest entry over 10) and changes no other target's data.
C13_WonNotifyUpdatesTarget ==
    [][(NotifyCalled /\ last_user_id # None /\ NotifyWon) =>
          LET t == last_user_id IN
          /\ impressions'[t] = impressions[t] + 1
          /\ clicks'[t] =
                 clicks[t] + (IF NotifyClicked = ClickedTrue THEN 1 ELSE 0)
          /\ click_probs'[t] = (clicks'[t] * Unit) \div impressions'[t]
          /\ winning_prices'[t] =
                 IF Len(winning_prices[t]) < 10
                 THEN Append(winning_prices[t], NotifyPrice)
                 ELSE Append(Tail(winning_prices[t]), NotifyPrice)
          /\ \A u \in DOMAIN clicks \ {t} : TargetData(u)' = TargetData(u)]_vars

C13_Witness ==
    /\ last_call.op = "notify"
    /\ last_call.user # None
    /\ last_call.won
    /\ last_call.clicked = ClickedNone
    /\ impressions[last_call.user] = 2
    /\ clicks[last_call.user] = 1
    /\ click_probs[last_call.user] = 5000
    /\ \E u \in DOMAIN clicks : u # last_call.user /\ impressions[u] = 1

\* the prices of the notifications attributed to target u, in arrival order
LoggedPrices(u) == [j \in DOMAIN price_log[u] |-> price_log[u][j].price]
\* the last n elements of s
LastN(s, n) == SubSeq(s, Len(s) - n + 1, Len(s))

\* C16: a price window never holds more than 10 entries and is always the
\* most recent (up to 10) prices notified for its target, in arrival order.
C16_WindowIsLastTen ==
    \A u \in DOMAIN winning_prices :
        /\ Len(winning_prices[u]) <= 10
        /\ winning_prices[u] =
               LastN(LoggedPrices(u), Min2(10, Len(price_log[u])))

C16_Witness ==
    \E u \in DOMAIN winning_prices :
        /\ Len(price_log[u]) = 11
        /\ Len(winning_prices[u]) = 10
        /\ winning_prices[u][1] = price_log[u][2].price

\* C17 as claimed: a price window contains only clearing prices of rounds in
\* which this bidder won that target.
C17_WindowHoldsWonPricesOnly ==
    \A u \in DOMAIN winning_prices :
        \A i \in DOMAIN winning_prices[u] :
            \E j \in DOMAIN price_log[u] :
                /\ price_log[u][j].won
                /\ price_log[u][j].price = winning_prices[u][i]

\* C17 as amended: a price window contains only clearing prices of
\* notifications attributed to that target, whether the bidder won or lost.
C17_WindowHoldsNotifiedPrices ==
    \A u \in DOMAIN winning_prices :
        \A i \in DOMAIN winning_prices[u] :
            \E j \in DOMAIN price_log[u] :
                price_log[u][j].price = winning_prices[u][i]

C17_Witness ==
    \E u \in DOMAIN winning_prices :
        /\ Len(winning_prices[u]) = 2
        /\ \A j \in DOMAIN price_log[u] : ~price_log[u][j].won
        /\ impressions[u] = 0

\* C18: notify(won=False, price, clicked) leaves impressions, clicks and the
\* click-probability estimate of every target unchanged, whatever clicked is;
\* nothing but the price window of the pending target changes.
C18_LostNotifyOnlyRecordsPrice ==
    [][(NotifyCalled /\ ~NotifyWon) =>
          /\ UNCHANGED <<impressions, clicks, click_probs, num_rounds,
                         current_round, last_user_id, last_bid>>
          /\ \A u \in DOMAIN winning_prices \ {last_user_id} :
                winning_prices'[u] = winning_prices[u]]_vars

C18_Witness ==
    /\ last_call.op = "notify"
    /\ last_call.user # None
    /\ ~last_call.won
    /\ last_call.clicked = ClickedTrue
    /\ impressions[last_call.user] = 1
    /\ Len(winning_prices[last_call.user]) = 2

====
